---- MODULE Spec2Model ----
(***************************************************************************)
(* Model of AppliedGo/messaging (src/messaging.go): two operating-system   *)
(* processes run the same program, each creating one PAIR socket, trying   *)
(* to Listen and falling back to Dial, then exchanging three messages in   *)
(* a send / receive / sleep loop.  The Mangos socket (vendored, not part   *)
(* of src/) is modelled by its contract: an address holds one listener, a  *)
(* dialer connects asynchronously, Send queues, Recv returns the next      *)
(* message or fails when the receive deadline passes.                      *)
(***************************************************************************)
EXTENDS Integers, Sequences, FiniteSets, TLC

\* ------------------------------------------------------------------ bounds
MaxArgs == 3

\* --------------------------------------------------------------- constants
NumIterations == 3
RecvDeadline == 10
SleepTime == 1
UsageMaxLen == 2

Procs == {"A", "B"}
None == "nobody"
Roles == {"0", "1"}
Urls == {"tcp://localhost:54545", "ipc:///tmp/pair.ipc", "ws://localhost:8080"}
Transports == {"ipc", "tcp"}
NoMsg == <<>>

Scheme(u) ==
  CASE u = "tcp://localhost:54545" -> "tcp"
    [] u = "ipc:///tmp/pair.ipc" -> "ipc"
    [] OTHER -> "ws"

Other(p) == IF p = "A" THEN "B" ELSE "A"

\* os.Args[1:] of a process: n command-line arguments, role then url.  The
\* arguments after the second are never read; one role and address stand for
\* the command lines that have them.
ArgsOfLen(n) ==
  IF n <= 2
  THEN {[k \in 1..n |-> IF k = 1 THEN r ELSE u] : r \in Roles, u \in Urls}
  ELSE {[k \in 1..n |-> IF k = 1 THEN "0"
                        ELSE IF k = 2 THEN "tcp://localhost:54545"
                        ELSE "extra"]}

ArgVectors == UNION {ArgsOfLen(n) : n \in 0..MaxArgs}

\* fmt.Sprintf("message %d from node %s.", i, node)
Format(i, n) == <<"message ", i, " from node ", n, ".">>

VARIABLES
  args,      \* args[p]: command-line arguments of process p (os.Args[1:])
  pc,        \* pc[p]: position of process p in main / runNode
  node,      \* node[p]: the global variable node ("" while unset)
  url,       \* url[p]: parameter url of runNode ("" before the call)
  i,         \* i[p]: loop counter of runNode
  sock,      \* sock[p]: "none", "open" or "closed" (the socket value)
  connRole,  \* connRole[p]: "none", "listener" or "dialer"
  deferred,  \* deferred[p]: defer socket.Close() has been registered
  exitCode,  \* exitCode[p]: -1 while running, 0 normal exit, 1 log.Fatalf
  log,       \* log[p]: lines written by the log package
  calls,     \* calls[p]: socket operations the process has performed
  timer,     \* timer[p]: time units spent in the current Recv wait or Sleep
  bound,     \* bound[u]: the process listening on address u, or None
  peer,      \* peer[p]: the process p's socket is connected to, or None
  outq,      \* outq[p]: messages accepted by Send, not yet on the wire
  inq,       \* inq[p]: messages delivered to p's socket, not yet received
  arrival    \* processes in the order of their Listen attempts

vars == <<args, pc, node, url, i, sock, connRole, deferred, exitCode, log,
          calls, timer, bound, peer, outq, inq, arrival>>

procVars == <<args, node, url, i, sock, connRole, deferred>>

Line(kind, msg) == [kind |-> kind, msg |-> msg]
Call(op, ok, u, msg) == [op |-> op, ok |-> ok, url |-> u, msg |-> msg]

\* len(os.Args) <= 2, os.Args[0] being the program name
ShowUsage(a) == Len(a) + 1 <= UsageMaxLen

\* the address of a closed or exited socket is free again
Released(b, p) == [u \in DOMAIN b |-> IF b[u] = p THEN None ELSE b[u]]
Unpiped(pr, p) == [q \in Procs |-> IF q = p \/ pr[q] = p THEN None ELSE pr[q]]

\* Listen succeeds on an address of an enabled transport that nobody holds
CanListen(u) == Scheme(u) \in Transports /\ bound[u] = None
\* Dial only checks the transport; the connection is made in the background
CanDial(u) == Scheme(u) \in Transports

Init ==
  /\ args \in [Procs -> ArgVectors]
  /\ pc = [p \in Procs |-> "idle"]
  /\ node = [p \in Procs |-> ""]
  /\ url = [p \in Procs |-> ""]
  /\ i = [p \in Procs |-> 0]
  /\ sock = [p \in Procs |-> "none"]
  /\ connRole = [p \in Procs |-> "none"]
  /\ deferred = [p \in Procs |-> FALSE]
  /\ exitCode = [p \in Procs |-> -1]
  /\ log = [p \in Procs |-> <<>>]
  /\ calls = [p \in Procs |-> <<>>]
  /\ timer = [p \in Procs |-> 0]
  /\ bound = [u \in Urls |-> None]
  /\ peer = [p \in Procs |-> None]
  /\ outq = [p \in Procs |-> <<>>]
  /\ inq = [p \in Procs |-> <<>>]
  /\ arrival = <<>>

\* log.Fatalf: write the line, then os.Exit(1).  Deferred calls do not run;
\* the operating system takes the process's connections and queues away.
Fatalf(p, newLog, newCalls) ==
  /\ log' = [log EXCEPT ![p] = newLog]
  /\ calls' = [calls EXCEPT ![p] = newCalls]
  /\ pc' = [pc EXCEPT ![p] = "exited"]
  /\ exitCode' = [exitCode EXCEPT ![p] = 1]
  /\ bound' = Released(bound, p)
  /\ peer' = Unpiped(peer, p)
  /\ outq' = [outq EXCEPT ![p] = <<>>]
  /\ inq' = [inq EXCEPT ![p] = <<>>]
  /\ UNCHANGED <<procVars, timer, arrival>>

\* the operating system starts the process
Start(p) ==
  /\ pc[p] = "idle"
  /\ pc' = [pc EXCEPT ![p] = "main"]
  /\ UNCHANGED <<procVars, exitCode, log, calls, timer, bound, peer, outq,
                 inq, arrival>>

\* variant of MainUsage: the role is stored before the arguments are counted
MainUsageSetsNode(p) ==
  /\ pc[p] = "main"
  /\ ShowUsage(args[p])
  /\ node' = [node EXCEPT ![p] = IF Len(args[p]) >= 1 THEN args[p][1] ELSE node[p]]
  /\ log' = [log EXCEPT ![p] = Append(@, Line("usage", NoMsg))]
  /\ pc' = [pc EXCEPT ![p] = "exited"]
  /\ exitCode' = [exitCode EXCEPT ![p] = 0]
  /\ UNCHANGED <<args, url, i, sock, connRole, deferred, calls, timer, bound,
                 peer, outq, inq, arrival>>

\* main, usage branch: print the usage line and return
MainUsage(p) ==
  /\ pc[p] = "main"
  /\ ShowUsage(args[p])
  /\ log' = [log EXCEPT ![p] = Append(@, Line("usage", NoMsg))]
  /\ pc' = [pc EXCEPT ![p] = "exited"]
  /\ exitCode' = [exitCode EXCEPT ![p] = 0]
  /\ UNCHANGED <<procVars, calls, timer, bound, peer, outq, inq, arrival>>

\* main, else branch: node = os.Args[1]; runNode(os.Args[2])
MainRun(p) ==
  /\ pc[p] = "main"
  /\ ~ShowUsage(args[p])
  /\ node' = [node EXCEPT ![p] = args[p][1]]
  /\ url' = [url EXCEPT ![p] = args[p][2]]
  /\ pc' = [pc EXCEPT ![p] = "newSocket"]
  /\ UNCHANGED <<args, i, sock, connRole, deferred, exitCode, log, calls,
                 timer, bound, peer, outq, inq, arrival>>

\* newSocket, pair.NewSocket() returned no error
NewSocketOk(p) ==
  /\ pc[p] = "newSocket"
  /\ sock' = [sock EXCEPT ![p] = "open"]
  /\ calls' = [calls EXCEPT ![p] = Append(@, Call("NewSocket", TRUE, "", NoMsg))]
  /\ pc' = [pc EXCEPT ![p] = "listen"]
  /\ UNCHANGED <<args, node, url, i, connRole, deferred, exitCode, log,
                 timer, bound, peer, outq, inq, arrival>>

\* newSocket, pair.NewSocket() returned an error
NewSocketFail(p) ==
  /\ pc[p] = "newSocket"
  /\ Fatalf(p, Append(log[p], Line("fatal: cannot create socket", NoMsg)),
               Append(calls[p], Call("NewSocket", FALSE, "", NoMsg)))

\* variant of ListenOk: the test of err is inverted, so a successful Listen
\* goes on to Dial
ListenOkThenDial(p) ==
  /\ pc[p] = "listen"
  /\ CanListen(url[p])
  /\ bound' = [bound EXCEPT ![url[p]] = p]
  /\ calls' = [calls EXCEPT ![p] = Append(@, Call("Listen", TRUE, url[p], NoMsg))]
  /\ arrival' = Append(arrival, p)
  /\ pc' = [pc EXCEPT ![p] = "dial"]
  /\ UNCHANGED <<procVars, exitCode, log, timer, peer, outq, inq>>

\* variant of ListenOk: the listening side enters the loop at the receive
ListenOkRecvFirst(p) ==
  /\ pc[p] = "listen"
  /\ CanListen(url[p])
  /\ bound' = [bound EXCEPT ![url[p]] = p]
  /\ connRole' = [connRole EXCEPT ![p] = "listener"]
  /\ deferred' = [deferred EXCEPT ![p] = TRUE]
  /\ i' = [i EXCEPT ![p] = 0]
  /\ calls' = [calls EXCEPT ![p] = Append(@, Call("Listen", TRUE, url[p], NoMsg))]
  /\ arrival' = Append(arrival, p)
  /\ timer' = [timer EXCEPT ![p] = 0]
  /\ pc' = [pc EXCEPT ![p] = "recv"]
  /\ UNCHANGED <<args, node, url, sock, exitCode, log, peer, outq, inq>>

\* runNode: socket.Listen(url) succeeded; defer socket.Close(); enter the loop
ListenOk(p) ==
  /\ pc[p] = "listen"
  /\ CanListen(url[p])
  /\ bound' = [bound EXCEPT ![url[p]] = p]
  /\ connRole' = [connRole EXCEPT ![p] = "listener"]
  /\ deferred' = [deferred EXCEPT ![p] = TRUE]
  /\ i' = [i EXCEPT ![p] = 0]
  /\ calls' = [calls EXCEPT ![p] = Append(@, Call("Listen", TRUE, url[p], NoMsg))]
  /\ arrival' = Append(arrival, p)
  /\ pc' = [pc EXCEPT ![p] = "send"]
  /\ UNCHANGED <<args, node, url, sock, exitCode, log, timer, peer, outq, inq>>

\* runNode: socket.Listen(url) failed; log it and go on to Dial
ListenFail(p) ==
  /\ pc[p] = "listen"
  /\ ~CanListen(url[p])
  /\ log' = [log EXCEPT ![p] = Append(@, Line("cannot listen, trying to dial", NoMsg))]
  /\ calls' = [calls EXCEPT ![p] = Append(@, Call("Listen", FALSE, url[p], NoMsg))]
  /\ arrival' = Append(arrival, p)
  /\ pc' = [pc EXCEPT ![p] = "dial"]
  /\ UNCHANGED <<procVars, exitCode, timer, bound, peer, outq, inq>>

\* runNode: socket.Dial(url) succeeded; defer socket.Close(); enter the loop
DialOk(p) ==
  /\ pc[p] = "dial"
  /\ CanDial(url[p])
  /\ connRole' = [connRole EXCEPT ![p] = "dialer"]
  /\ deferred' = [deferred EXCEPT ![p] = TRUE]
  /\ i' = [i EXCEPT ![p] = 0]
  /\ calls' = [calls EXCEPT ![p] = Append(@, Call("Dial", TRUE, url[p], NoMsg))]
  /\ pc' = [pc EXCEPT ![p] = "send"]
  /\ UNCHANGED <<args, node, url, sock, exitCode, log, timer, bound, peer,
                 outq, inq, arrival>>

\* runNode: socket.Dial(url) failed as well: log.Fatalf
DialFail(p) ==
  /\ pc[p] = "dial"
  /\ ~CanDial(url[p])
  /\ Fatalf(p, Append(log[p], Line("fatal: can neither listen nor dial", NoMsg)),
               Append(calls[p], Call("Dial", FALSE, url[p], NoMsg)))

\* variant of SendOk: the receive of the iteration is skipped
SendOkNoRecv(p) ==
  /\ pc[p] = "send"
  /\ LET m == Format(i[p], node[p]) IN
       /\ log' = [log EXCEPT ![p] = Append(@, Line("sends", m))]
       /\ calls' = [calls EXCEPT ![p] = Append(@, Call("Send", TRUE, "", m))]
       /\ outq' = [outq EXCEPT ![p] = Append(@, m)]
  /\ timer' = [timer EXCEPT ![p] = 0]
  /\ pc' = [pc EXCEPT ![p] = "sleep"]
  /\ UNCHANGED <<procVars, exitCode, bound, peer, inq, arrival>>

\* variant of SendOk: the message is logged but not handed to the socket
SendOkDropped(p) ==
  /\ pc[p] = "send"
  /\ LET m == Format(i[p], node[p]) IN
       /\ log' = [log EXCEPT ![p] = Append(@, Line("sends", m))]
       /\ calls' = [calls EXCEPT ![p] = Append(@, Call("Send", TRUE, "", m))]
  /\ timer' = [timer EXCEPT ![p] = 0]
  /\ pc' = [pc EXCEPT ![p] = "recv"]
  /\ UNCHANGED <<procVars, exitCode, bound, peer, outq, inq, arrival>>

\* variant of SendOk: the message carries the counter of the next iteration
SendOkOneBased(p) ==
  /\ pc[p] = "send"
  /\ LET m == <<"message ", i[p] + 1, " from node ", node[p], ".">> IN
       /\ log' = [log EXCEPT ![p] = Append(@, Line("sends", m))]
       /\ calls' = [calls EXCEPT ![p] = Append(@, Call("Send", TRUE, "", m))]
       /\ outq' = [outq EXCEPT ![p] = Append(@, m)]
  /\ timer' = [timer EXCEPT ![p] = 0]
  /\ pc' = [pc EXCEPT ![p] = "recv"]
  /\ UNCHANGED <<procVars, exitCode, bound, peer, inq, arrival>>

\* send: log the message, socket.Send returned no error; then receive
SendOk(p) ==
  /\ pc[p] = "send"
  /\ LET m == Format(i[p], node[p]) IN
       /\ log' = [log EXCEPT ![p] = Append(@, Line("sends", m))]
       /\ calls' = [calls EXCEPT ![p] = Append(@, Call("Send", TRUE, "", m))]
       /\ outq' = [outq EXCEPT ![p] = Append(@, m)]
  /\ timer' = [timer EXCEPT ![p] = 0]
  /\ pc' = [pc EXCEPT ![p] = "recv"]
  /\ UNCHANGED <<procVars, exitCode, bound, peer, inq, arrival>>

\* variant of SendFail: the error is logged with Printf and the loop goes on
SendFailContinues(p) ==
  /\ pc[p] = "send"
  /\ LET m == Format(i[p], node[p]) IN
       /\ log' = [log EXCEPT ![p] =
                    @ \o <<Line("sends", m), Line("fatal: failed to send", m)>>]
       /\ calls' = [calls EXCEPT ![p] = Append(@, Call("Send", FALSE, "", m))]
  /\ timer' = [timer EXCEPT ![p] = 0]
  /\ pc' = [pc EXCEPT ![p] = "recv"]
  /\ UNCHANGED <<procVars, exitCode, bound, peer, outq, inq, arrival>>

\* send: log the message, socket.Send returned an error: log.Fatalf
SendFail(p) ==
  /\ pc[p] = "send"
  /\ LET m == Format(i[p], node[p]) IN
       Fatalf(p, log[p] \o <<Line("sends", m), Line("fatal: failed to send", m)>>,
                 Append(calls[p], Call("Send", FALSE, "", m)))

\* receive: socket.Recv returned a message before the deadline; then sleep
RecvOk(p) ==
  /\ pc[p] = "recv"
  /\ inq[p] # <<>>
  /\ timer[p] < RecvDeadline
  /\ LET m == Head(inq[p]) IN
       /\ log' = [log EXCEPT ![p] = Append(@, Line("received", m))]
       /\ calls' = [calls EXCEPT ![p] = Append(@, Call("Recv", TRUE, "", m))]
  /\ inq' = [inq EXCEPT ![p] = Tail(@)]
  /\ timer' = [timer EXCEPT ![p] = 0]
  /\ pc' = [pc EXCEPT ![p] = "sleep"]
  /\ UNCHANGED <<procVars, exitCode, bound, peer, outq, arrival>>

\* variant of RecvTimeout: the error is logged and the receive is tried again
RecvTimeoutRetries(p) ==
  /\ pc[p] = "recv"
  /\ timer[p] = RecvDeadline
  /\ log' = [log EXCEPT ![p] = Append(@, Line("fatal: failed receiving", NoMsg))]
  /\ calls' = [calls EXCEPT ![p] = Append(@, Call("Recv", FALSE, "", NoMsg))]
  /\ timer' = [timer EXCEPT ![p] = 0]
  /\ UNCHANGED <<procVars, pc, exitCode, bound, peer, outq, inq, arrival>>

\* variant of RecvTimeout: the deadline error is dropped and the process
\* waits in Recv again
RecvTimeoutWaitsAgain(p) ==
  /\ pc[p] = "recv"
  /\ timer[p] = RecvDeadline
  /\ timer' = [timer EXCEPT ![p] = 0]
  /\ UNCHANGED <<procVars, pc, exitCode, log, calls, bound, peer, outq, inq,
                 arrival>>

\* receive: the deadline passed with nothing received: log.Fatalf
RecvTimeout(p) ==
  /\ pc[p] = "recv"
  /\ timer[p] = RecvDeadline
  /\ Fatalf(p, Append(log[p], Line("fatal: failed receiving", NoMsg)),
               Append(calls[p], Call("Recv", FALSE, "", NoMsg)))

\* variant of Wake: the loop test is i <= 3
WakeOneMore(p) ==
  /\ pc[p] = "sleep"
  /\ timer[p] = SleepTime
  /\ i' = [i EXCEPT ![p] = @ + 1]
  /\ pc' = [pc EXCEPT ![p] = IF i[p] + 1 <= NumIterations THEN "send" ELSE "done"]
  /\ UNCHANGED <<args, node, url, sock, connRole, deferred, exitCode, log,
                 calls, timer, bound, peer, outq, inq, arrival>>

\* variant of Wake: the loop test is i < 2
WakeOneLess(p) ==
  /\ pc[p] = "sleep"
  /\ timer[p] = SleepTime
  /\ i' = [i EXCEPT ![p] = @ + 1]
  /\ pc' = [pc EXCEPT ![p] = IF i[p] + 1 < NumIterations - 1 THEN "send" ELSE "done"]
  /\ UNCHANGED <<args, node, url, sock, connRole, deferred, exitCode, log,
                 calls, timer, bound, peer, outq, inq, arrival>>

\* time.Sleep is over; i++ and the loop test i < 3
Wake(p) ==
  /\ pc[p] = "sleep"
  /\ timer[p] = SleepTime
  /\ i' = [i EXCEPT ![p] = @ + 1]
  /\ pc' = [pc EXCEPT ![p] = IF i[p] + 1 < NumIterations THEN "send" ELSE "done"]
  /\ UNCHANGED <<args, node, url, sock, connRole, deferred, exitCode, log,
                 calls, timer, bound, peer, outq, inq, arrival>>

\* log.Printf("Node %s: Done.")
LogDone(p) ==
  /\ pc[p] = "done"
  /\ log' = [log EXCEPT ![p] = Append(@, Line("done", NoMsg))]
  /\ pc' = [pc EXCEPT ![p] = "return"]
  /\ UNCHANGED <<procVars, exitCode, calls, timer, bound, peer, outq, inq,
                 arrival>>

\* runNode returns: the deferred socket.Close() runs (queued messages are
\* still handed to a connected peer), then main returns and the process ends
Close(p) ==
  /\ pc[p] = "return"
  /\ deferred[p]
  /\ sock' = [sock EXCEPT ![p] = "closed"]
  /\ calls' = [calls EXCEPT ![p] = Append(@, Call("Close", TRUE, "", NoMsg))]
  /\ inq' = [q \in Procs |->
               IF q = p THEN <<>>
               ELSE IF peer[p] = q THEN inq[q] \o outq[p] ELSE inq[q]]
  /\ outq' = [outq EXCEPT ![p] = <<>>]
  /\ bound' = Released(bound, p)
  /\ peer' = Unpiped(peer, p)
  /\ pc' = [pc EXCEPT ![p] = "exited"]
  /\ exitCode' = [exitCode EXCEPT ![p] = 0]
  /\ UNCHANGED <<args, node, url, i, connRole, deferred, log, timer, arrival>>

\* the dialer's background connect reaches the listener of its address
Connect(d) ==
  /\ connRole[d] = "dialer"
  /\ pc[d] # "exited"
  /\ peer[d] = None
  /\ bound[url[d]] \in Procs \ {d}
  /\ peer[bound[url[d]]] = None
  /\ peer' = [peer EXCEPT ![d] = bound[url[d]], ![bound[url[d]]] = d]
  /\ UNCHANGED <<procVars, pc, exitCode, log, calls, timer, bound, outq, inq,
                 arrival>>

\* the transport carries the oldest queued message of p to its peer
Transmit(p) ==
  /\ peer[p] # None
  /\ outq[p] # <<>>
  /\ inq' = [inq EXCEPT ![peer[p]] = Append(@, Head(outq[p]))]
  /\ outq' = [outq EXCEPT ![p] = Tail(@)]
  /\ UNCHANGED <<procVars, pc, exitCode, log, calls, timer, bound, peer,
                 arrival>>

\* one time unit passes for every Recv that has nothing to return and for
\* every Sleep
Ticked(p) ==
  IF pc[p] = "recv" /\ inq[p] = <<>> /\ timer[p] < RecvDeadline THEN timer[p] + 1
  ELSE IF pc[p] = "sleep" /\ timer[p] < SleepTime THEN timer[p] + 1
  ELSE timer[p]

Tick ==
  /\ timer' = [p \in Procs |-> Ticked(p)]
  /\ timer' # timer
  /\ UNCHANGED <<procVars, pc, exitCode, log, calls, bound, peer, outq, inq,
                 arrival>>

Next ==
  \/ \E p \in Procs : Start(p)
  \/ \E p \in Procs : MainUsage(p)
  \/ \E p \in Procs : MainRun(p)
  \/ \E p \in Procs : NewSocketOk(p)
  \/ \E p \in Procs : NewSocketFail(p)
  \/ \E p \in Procs : ListenOk(p)
  \/ \E p \in Procs : ListenFail(p)
  \/ \E p \in Procs : DialOk(p)
  \/ \E p \in Procs : DialFail(p)
  \/ \E p \in Procs : SendOk(p)
  \/ \E p \in Procs : SendFail(p)
  \/ \E p \in Procs : RecvOk(p)
  \/ \E p \in Procs : RecvTimeout(p)
  \/ \E p \in Procs : Wake(p)
  \/ \E p \in Procs : LogDone(p)
  \/ \E p \in Procs : Close(p)
  \/ \E p \in Procs : Connect(p)
  \/ \E p \in Procs : Transmit(p)
  \/ Tick

Spec == Init /\ [][Next]_vars

\* ------------------------------------------------------------------------
\* The program on a socket whose creation and Send do not fail: the only
\* failures are those the address and the clock produce (Listen on a held or
\* unsupported address, Dial on an unsupported address, Recv at the deadline).
\* ------------------------------------------------------------------------
NoFaultNext ==
  \/ \E p \in Procs : Start(p)
  \/ \E p \in Procs : MainUsage(p)
  \/ \E p \in Procs : MainRun(p)
  \/ \E p \in Procs : NewSocketOk(p)
  \/ \E p \in Procs : ListenOk(p)
  \/ \E p \in Procs : ListenFail(p)
  \/ \E p \in Procs : DialOk(p)
  \/ \E p \in Procs : DialFail(p)
  \/ \E p \in Procs : SendOk(p)
  \/ \E p \in Procs : RecvOk(p)
  \/ \E p \in Procs : RecvTimeout(p)
  \/ \E p \in Procs : Wake(p)
  \/ \E p \in Procs : LogDone(p)
  \/ \E p \in Procs : Close(p)
  \/ \E p \in Procs : Connect(p)
  \/ \E p \in Procs : Transmit(p)
  \/ Tick

NoFaultSpec == Init /\ [][NoFaultNext]_vars

\* ------------------------------------------------------------------------
\* The correctly paired run: both processes are started with two arguments,
\* different role identifiers and the same address of an enabled transport;
\* no socket operation reports an error other than the second Listen, and
\* the peer is started and scheduled in time, so that no Recv wait reaches
\* the deadline: time passes while a process sleeps, and otherwise only while
\* every waiting process can still afford the two Sleeps its peer may take
\* before the awaited message is delivered.
\* ------------------------------------------------------------------------
PairedInit ==
  /\ Init
  /\ \A p \in Procs : Len(args[p]) = 2
  /\ args["A"][1] # args["B"][1]
  /\ args["A"][2] = args["B"][2]
  /\ Scheme(args["A"][2]) \in Transports

Waiting(p) == pc[p] = "recv" /\ inq[p] = <<>>
Sleeping(p) == pc[p] = "sleep" /\ timer[p] < SleepTime

PairedTick ==
  /\ Tick
  /\ \/ \E p \in Procs : Sleeping(p)
     \/ \A p \in Procs : Waiting(p) => timer[p] + 1 + 2 * SleepTime < RecvDeadline

ProcStep(p) ==
  \/ Start(p)
  \/ MainRun(p)
  \/ NewSocketOk(p)
  \/ ListenOk(p)
  \/ ListenFail(p)
  \/ DialOk(p)
  \/ SendOk(p)
  \/ RecvOk(p)
  \/ Wake(p)
  \/ LogDone(p)
  \/ Close(p)

PairedNext ==
  \/ \E p \in Procs : ProcStep(p)
  \/ \E p \in Procs : Connect(p)
  \/ \E p \in Procs : Transmit(p)
  \/ PairedTick

PairedSpec == PairedInit /\ [][PairedNext]_vars

\* every started process keeps running, the transport keeps delivering and
\* time keeps passing
FairPairedSpec ==
  /\ PairedSpec
  /\ \A p \in Procs : WF_vars(ProcStep(p))
  /\ \A p \in Procs : WF_vars(Connect(p))
  /\ \A p \in Procs : WF_vars(Transmit(p))
  /\ WF_vars(PairedTick)

\* ------------------------------------------------------------------------
\* The program with a scheduler and a clock: a process that has been started
\* keeps taking its steps and time keeps passing.  Nothing is assumed about
\* the peer being started, about connection or about delivery.
\* ------------------------------------------------------------------------
Run(p) ==
  \/ MainUsage(p)
  \/ MainRun(p)
  \/ NewSocketOk(p)
  \/ NewSocketFail(p)
  \/ ListenOk(p)
  \/ ListenFail(p)
  \/ DialOk(p)
  \/ DialFail(p)
  \/ SendOk(p)
  \/ SendFail(p)
  \/ RecvOk(p)
  \/ RecvTimeout(p)
  \/ Wake(p)
  \/ LogDone(p)
  \/ Close(p)

FairSpec ==
  /\ Spec
  /\ \A p \in Procs : WF_vars(Run(p))
  /\ WF_vars(Tick)

\* ------------------------------------------------------------------------
\* Derived quantities
\* ------------------------------------------------------------------------
RECURSIVE CountIf(_, _, _)
CountIf(s, op, ok) ==
  IF s = <<>> THEN 0
  ELSE (IF Head(s).op = op /\ Head(s).ok = ok THEN 1 ELSE 0) + CountIf(Tail(s), op, ok)

Sent(p) == CountIf(calls[p], "Send", TRUE)
Received(p) == CountIf(calls[p], "Recv", TRUE)
Attempts(p, op) == CountIf(calls[p], op, TRUE) + CountIf(calls[p], op, FALSE)
LoggedDone(p) == \E k \in 1..Len(log[p]) : log[p][k].kind = "done"

TypeOK ==
  /\ pc \in [Procs -> {"idle", "main", "newSocket", "listen", "dial", "send",
                       "recv", "sleep", "done", "return", "exited"}]
  /\ sock \in [Procs -> {"none", "open", "closed"}]
  /\ connRole \in [Procs -> {"none", "listener", "dialer"}]
  /\ exitCode \in [Procs -> {-1, 0, 1}]
  /\ timer \in [Procs -> 0..RecvDeadline]
  /\ peer \in [Procs -> Procs \cup {None}]
  /\ bound \in [Urls -> Procs \cup {None}]

\* ------------------------------------------------------------------------
\* Claims
\* ------------------------------------------------------------------------
Running(p) == pc[p] \notin {"idle", "exited"}
PastConnect(p) == Attempts(p, "Listen") = 1 /\ pc[p] \notin {"listen", "dial"}

\* two processes started with the same address and different role identifiers
SameAddrDiffRole ==
  /\ \A p \in Procs : Len(args[p]) >= 2
  /\ args["A"][1] # args["B"][1]
  /\ args["A"][2] = args["B"][2]

\* C1 as stated: for any two processes started with the same address and
\* different role identifiers, once both are through connection establishment
\* exactly one is the listener and the other the dialer, and the listener is
\* the process whose Listen attempt came first.
C1_AnyPairSplitsRoles ==
  (SameAddrDiffRole /\ \A p \in Procs : PastConnect(p)) =>
     \E l \in Procs : /\ connRole[l] = "listener"
                      /\ connRole[Other(l)] = "dialer"
                      /\ arrival[1] = l

\* C1 amended: for two processes started with the same address of an enabled
\* transport and different role identifiers, the process whose Listen attempt
\* comes first is the listener, and as long as it has not exited a second
\* process that attempts Listen sees it fail, never becomes a listener and is
\* the dialer once its Dial has returned.
C1_RolesByArrivalWhileHeld ==
  (SameAddrDiffRole /\ Scheme(args["A"][2]) \in Transports) =>
     /\ Len(arrival) >= 1 => connRole[arrival[1]] = "listener"
     /\ (Len(arrival) = 2 /\ pc[arrival[1]] # "exited") =>
           /\ connRole[arrival[2]] # "listener"
           /\ calls[arrival[2]][2] = Call("Listen", FALSE, url[arrival[2]], NoMsg)
           /\ pc[arrival[2]] # "dial" => connRole[arrival[2]] = "dialer"

C1_Witness ==
  /\ SameAddrDiffRole
  /\ Len(arrival) = 2
  /\ \A p \in Procs : Running(p)
  /\ connRole[arrival[1]] = "listener"
  /\ connRole[arrival[2]] = "dialer"

IsSendRecv(c) == c.op \in {"Send", "Recv"}
SendRecv(p) == SelectSeq(calls[p], IsSendRecv)

\* C2: in each process the Send and Recv operations alternate, beginning with
\* the Send of message 0: the k-th Send carries message k-1 and is followed by
\* that iteration's Recv, which has completed before the next Send; there are
\* never more than 3 Sends or 3 Recvs.
C2_SendThenRecvEachIteration ==
  \A p \in Procs :
    LET s == SendRecv(p) IN
      /\ Attempts(p, "Send") <= NumIterations
      /\ Attempts(p, "Recv") <= NumIterations
      /\ \A k \in 1..Len(s) :
           /\ k % 2 = 1 => s[k].op = "Send" /\ s[k].msg = Format((k - 1) \div 2, node[p])
           /\ k % 2 = 0 => s[k].op = "Recv"
           /\ k < Len(s) => s[k].ok
      /\ pc[p] = "recv" <=> (Len(s) % 2 = 1 /\ s[Len(s)].ok)

C2_Witness ==
  \E p \in Procs :
    /\ Len(SendRecv(p)) = 2 * NumIterations
    /\ \A k \in 1..Len(SendRecv(p)) : SendRecv(p)[k].ok

\* the Recv of message m is in the history of b before position k
RecvBefore(b, m, k) ==
  \E r \in 1..Len(calls[b]) :
    /\ r < k
    /\ calls[b][r].op = "Recv"
    /\ calls[b][r].ok
    /\ calls[b][r].msg = m

\* process b received a's message j before it sent its own message j
RecvBeforeOwnSend(b, a, j) ==
  \E k \in 1..Len(calls[b]) :
    /\ calls[b][k].op = "Send"
    /\ calls[b][k].msg = Format(j, node[b])
    /\ RecvBefore(b, Format(j, node[a]), k)

\* C3 as stated: in a paired run, for every iteration j that both processes
\* have sent, one of the two received the other's message j before sending its
\* own message j.
C3_PeerMessageBeforeOwnSend ==
  \A j \in 0..(NumIterations - 1) :
    (Sent("A") > j /\ Sent("B") > j) =>
       RecvBeforeOwnSend("A", "B", j) \/ RecvBeforeOwnSend("B", "A", j)

SentBefore(p, k) == CountIf(SubSeq(calls[p], 1, k - 1), "Send", TRUE)

\* C3 amended: in a paired run the message a process sent at iteration j is
\* received by its peer after the peer has sent its own iteration-j message
\* and before the peer sends its iteration-(j+1) message.
C3_PeerMessageAfterOwnSend ==
  \A b \in Procs : \A k \in 1..Len(calls[b]) : \A j \in 0..(NumIterations - 1) :
    (calls[b][k].op = "Recv" /\ calls[b][k].msg = Format(j, node[Other(b)])) =>
        SentBefore(b, k) = j + 1

C3_Witness ==
  \A b \in Procs :
    \E k \in 1..Len(calls[b]) :
      /\ calls[b][k].op = "Recv"
      /\ calls[b][k].msg = Format(NumIterations - 1, node[Other(b)])

Blocked(p) == pc[p] = "recv" /\ inq[p] = <<>> /\ outq[Other(p)] = <<>>
Completed(p) ==
  LoggedDone(p) /\ Sent(p) = NumIterations /\ Received(p) = NumIterations

\* C4: in a correctly paired run both processes eventually log Done, each
\* having sent exactly 3 and received exactly 3 messages; no process ever sends
\* or receives more, none exits fatally, and the two are never both blocked in
\* Recv with nothing in flight.
C4_PairedRunCompletes ==
  /\ [](~(Blocked("A") /\ Blocked("B")))
  /\ [](\A p \in Procs : /\ Sent(p) <= NumIterations
                         /\ Received(p) <= NumIterations
                         /\ exitCode[p] # 1)
  /\ <>(\A p \in Procs : Completed(p) /\ pc[p] = "exited")

C4_Witness ==
  \A p \in Procs : Completed(p) /\ pc[p] = "exited" /\ exitCode[p] = 0

HasCall(p, op, ok) == CountIf(calls[p], op, ok) > 0

\* C5: the first socket operation after creation is Listen; Dial is attempted
\* exactly when Listen failed, directly after it and on the same address; each
\* is attempted at most once; when both fail the process has exited fatally
\* without any Send or Recv.
C5_ListenThenDialOnce ==
  \A p \in Procs :
    /\ Attempts(p, "Listen") <= 1
    /\ Attempts(p, "Dial") <= 1
    /\ Len(calls[p]) >= 2 =>
         /\ calls[p][2].op = "Listen"
         /\ calls[p][2].url = url[p]
    /\ \A k \in 1..Len(calls[p]) :
         calls[p][k].op = "Dial" =>
           /\ k = 3
           /\ ~calls[p][2].ok
           /\ calls[p][3].url = calls[p][2].url
    /\ HasCall(p, "Listen", FALSE) =>
         /\ pc[p] = "dial" <=> Len(calls[p]) = 2
         /\ pc[p] # "dial" => calls[p][3].op = "Dial"
    /\ HasCall(p, "Dial", FALSE) =>
         /\ pc[p] = "exited"
         /\ exitCode[p] = 1
         /\ Attempts(p, "Send") = 0
         /\ Attempts(p, "Recv") = 0
         /\ connRole[p] = "none"

C5_Witness ==
  \E p \in Procs :
    /\ HasCall(p, "Listen", FALSE)
    /\ HasCall(p, "Dial", TRUE)
    /\ Sent(p) >= 1
    /\ HasCall(Other(p), "Dial", FALSE) \/ HasCall(Other(p), "Listen", TRUE)

Last(s) == s[Len(s)]
DeadlinePassed(p) == pc[p] = "recv" /\ timer[p] = RecvDeadline

\* C6: when a process has waited in Recv for 10 time units without a message,
\* its next step is the fatal exit with the receive failure (the step is
\* possible, and it is the only one); a Recv fails only in that situation, and
\* an exited process performs no further operation.
C6_TimeoutIsFatal ==
  [][\A p \in Procs :
       /\ DeadlinePassed(p) => ENABLED RecvTimeout(p)
       /\ (DeadlinePassed(p) /\ <<pc[p], calls[p], log[p]>>' # <<pc[p], calls[p], log[p]>>) =>
            /\ pc'[p] = "exited"
            /\ exitCode'[p] = 1
            /\ calls'[p] = Append(calls[p], Call("Recv", FALSE, "", NoMsg))
            /\ Last(log'[p]).kind = "fatal: failed receiving"
       /\ CountIf(calls'[p], "Recv", FALSE) > CountIf(calls[p], "Recv", FALSE) =>
            DeadlinePassed(p)
       /\ pc[p] = "exited" =>
            /\ pc'[p] = "exited"
            /\ calls'[p] = calls[p]
            /\ log'[p] = log[p]
    ]_vars

C6_Witness ==
  \E p \in Procs :
    /\ pc[p] = "exited"
    /\ exitCode[p] = 1
    /\ Last(calls[p]) = Call("Recv", FALSE, "", NoMsg)
    /\ Sent(p) >= 1

\* C7: every process that created an endpoint and has ended has closed it.
C7_ClosedOnEveryPath ==
  \A p \in Procs :
    (pc[p] = "exited" /\ HasCall(p, "NewSocket", TRUE)) =>
       sock[p] = "closed" /\ HasCall(p, "Close", TRUE)

AnyFailure(p) ==
  \E k \in 1..Len(calls[p]) : ~calls[p][k].ok /\ calls[p][k].op # "Listen"

\* C8: a process has logged Done only after 3 successful Sends and 3
\* successful Recvs, and a process that ended after them has logged Done and
\* exited with code 0; a failed socket creation, Dial, Send or Recv is the last
\* operation of its process, which has exited with code 1 and not logged Done.
C8_DoneIffAllSucceeded ==
  \A p \in Procs :
    /\ LoggedDone(p) =>
         /\ Sent(p) = NumIterations
         /\ Received(p) = NumIterations
         /\ ~AnyFailure(p)
    /\ (pc[p] = "exited" /\ exitCode[p] = 0 /\ ~ShowUsage(args[p])) => LoggedDone(p)
    /\ (Sent(p) = NumIterations /\ Received(p) = NumIterations
          /\ pc[p] \in {"return", "exited"}) =>
         LoggedDone(p) /\ exitCode[p] # 1
    /\ \A k \in 1..Len(calls[p]) :
         (~calls[p][k].ok /\ calls[p][k].op # "Listen") =>
           /\ k = Len(calls[p])
           /\ pc[p] = "exited"
           /\ exitCode[p] = 1
           /\ ~LoggedDone(p)

C8_Witness ==
  \E p \in Procs :
    /\ LoggedDone(p)
    /\ pc[p] = "exited"
    /\ exitCode[p] = 0
    /\ AnyFailure(Other(p))
    /\ exitCode[Other(p)] = 1

\* C9: a process invoked with fewer than two arguments creates no endpoint,
\* performs no socket operation, leaves node unset and holds nothing; when it
\* has ended it has printed only the usage line and exited with code 0.
C9_UsageDoesNoWork ==
  \A p \in Procs :
    Len(args[p]) < 2 =>
      /\ calls[p] = <<>>
      /\ sock[p] = "none"
      /\ connRole[p] = "none"
      /\ node[p] = ""
      /\ url[p] = ""
      /\ outq[p] = <<>>
      /\ \A u \in Urls : bound[u] # p
      /\ exitCode[p] # 1
      /\ pc[p] \in {"idle", "main", "exited"}
      /\ pc[p] = "exited" => exitCode[p] = 0 /\ log[p] = <<Line("usage", NoMsg)>>

C9_Witness ==
  \E p \in Procs :
    /\ Len(args[p]) = 1
    /\ pc[p] = "exited"
    /\ log[p] = <<Line("usage", NoMsg)>>

RoleFromCalls(p) ==
  IF HasCall(p, "Listen", TRUE) THEN "listener"
  ELSE IF HasCall(p, "Dial", TRUE) THEN "dialer"
  ELSE "none"

\* C10: a process creates at most one endpoint and never has it open again
\* after closing it; its connection role, once listener or dialer, never
\* changes; the loop counter never exceeds 3, every step leaves the number of
\* Sends and Recvs within 3, and Done is logged with the counter at 3.
C10_OneEndpointFixedRole ==
  [][\A p \in Procs :
       /\ Attempts(p, "NewSocket")' <= 1
       /\ sock[p] # "none" => sock'[p] # "none"
       /\ sock[p] = "closed" => sock'[p] = "closed"
       /\ connRole[p] # "none" => connRole'[p] = connRole[p]
       /\ connRole'[p] = RoleFromCalls(p)'
       /\ i'[p] \in 0..NumIterations
       /\ Attempts(p, "Send")' <= NumIterations
       /\ Attempts(p, "Recv")' <= NumIterations
       /\ LoggedDone(p)' => i'[p] = NumIterations /\ Sent(p)' = NumIterations
    ]_vars

C10_Witness ==
  \E p \in Procs :
    /\ LoggedDone(p)
    /\ i[p] = NumIterations
    /\ connRole[p] = "dialer"
    /\ connRole[Other(p)] = "listener"
    /\ sock[p] = "closed"

IsRecvOk(c) == c.op = "Recv" /\ c.ok
Recvs(p) == SelectSeq(calls[p], IsRecvOk)
IsReceivedLine(l) == l.kind = "received"
ReceivedLines(p) == SelectSeq(log[p], IsReceivedLine)

\* C11: in a paired run the k-th message a process receives (iteration k-1) is
\* exactly "message k-1 from node <peer role>.", the peer's k-th message, and
\* it is what the process logs as received; so a process never receives its
\* own message, a duplicate or a message with another counter.
C11_ReceivedInOrder ==
  \A p \in Procs :
    /\ Len(ReceivedLines(p)) = Len(Recvs(p))
    /\ \A k \in 1..Len(Recvs(p)) :
         /\ Recvs(p)[k].msg = Format(k - 1, node[Other(p)])
         /\ Recvs(p)[k].msg # Format(k - 1, node[p])
         /\ ReceivedLines(p)[k].msg = Recvs(p)[k].msg
         /\ \A j \in 1..Len(Recvs(p)) : j # k => Recvs(p)[j].msg # Recvs(p)[k].msg

C11_Witness ==
  \A p \in Procs :
    /\ Len(Recvs(p)) = NumIterations
    /\ Recvs(p)[NumIterations].msg = Format(NumIterations - 1, node[Other(p)])

Ran(p) == pc[p] # "idle" /\ ~ShowUsage(args[p])

\* C12: every started process eventually terminates, whatever its peer does;
\* a terminated process has exited with Done after a complete exchange, with
\* the usage line, or fatally, and a process that ran while its peer was never
\* started has exited fatally.
C12_EveryStartedProcessTerminates ==
  /\ \A p \in Procs : [](pc[p] # "idle" => <>(pc[p] = "exited"))
  /\ [](\A p \in Procs :
          pc[p] = "exited" =>
            /\ exitCode[p] \in {0, 1}
            /\ exitCode[p] = 0 => (ShowUsage(args[p]) \/ Completed(p))
            /\ (Ran(p) /\ pc[Other(p)] = "idle") => exitCode[p] = 1)

C12_Witness ==
  \E p \in Procs :
    /\ pc[p] = "exited"
    /\ exitCode[p] = 1
    /\ Sent(p) >= 1
    /\ Last(calls[p]) = Call("Recv", FALSE, "", NoMsg)
    /\ pc[Other(p)] = "idle"

InFlight(p) == Sent(p) - Received(Other(p))
Abs(n) == IF n < 0 THEN -n ELSE n

\* C13: in every state of a paired run the numbers of messages the two
\* processes have sent differ by at most 1, each process has sent as many
\* messages as it has received or one more, and at most 2 messages are in
\* flight (sent and not yet received) in one direction and in both together;
\* the messages in flight are those in the sender's queue and the receiver's.
C13_LockStep ==
  /\ Abs(Sent("A") - Sent("B")) <= 1
  /\ \A p \in Procs :
       /\ Sent(p) - Received(p) \in {0, 1}
       /\ InFlight(p) \in 0..2
       /\ pc[p] # "exited" => InFlight(p) = Len(outq[p]) + Len(inq[Other(p)])
  /\ InFlight("A") + InFlight("B") <= 2

C13_Witness ==
  \E p \in Procs :
    /\ InFlight(p) = 2
    /\ Sent(p) = Sent(Other(p)) + 1
    /\ Sent(p) = Received(p) + 1

\* C14: whenever a process has logged Done, its peer has sent all 3 of its
\* messages and has received at least the first 2 messages of the process, in
\* order.  (That nothing more is required is shown by the state C14_Witness:
\* the process has logged Done while its peer has received only 2 messages and
\* has exited fatally, so it never receives the last one and never logs Done.)
C14_DoneImpliesPeerProgress ==
  \A p \in Procs :
    LoggedDone(p) =>
      /\ Sent(Other(p)) = NumIterations
      /\ Received(Other(p)) >= NumIterations - 1
      /\ \A k \in 1..(NumIterations - 1) :
           Recvs(Other(p))[k].msg = Format(k - 1, node[p])

C14_Witness ==
  \E p \in Procs :
    /\ LoggedDone(p)
    /\ Received(Other(p)) = NumIterations - 1
    /\ pc[Other(p)] = "exited"
    /\ exitCode[Other(p)] = 1
    /\ ~LoggedDone(Other(p))

====
